---- MODULE Spec2Model ----
(***************************************************************************)
(* Asset valuation core of the ERP service (src/main.py): the domain       *)
(* records and their serialisation, the depreciation engine, the file      *)
(* handler and the repository services.                                    *)
(***************************************************************************)
EXTENDS Integers, Sequences, FiniteSets, TLC

(***************************************************************************)
(* decimal.Decimal: sign, coefficient (big-endian digit sequence) and      *)
(* exponent, with the default context (28 significant digits, round half   *)
(* even).                                                                  *)
(***************************************************************************)
Prec == 28

Max2(a, b) == IF a >= b THEN a ELSE b

Min2(a, b) == IF a <= b THEN a ELSE b

\* the element of a one-element set: The({F(x) : x \in {e}}) is F(e) with e
\* evaluated once
The(S) == CHOOSE x \in S : TRUE

Zeros(n) == [i \in 1..n |-> 0]

NatIsZero(s) == \A i \in 1..Len(s) : s[i] = 0

\* the coefficient without leading zeros ("0" for zero)
NatStrip(s) ==
  IF NatIsZero(s) THEN <<0>>
  ELSE SubSeq(s, CHOOSE i \in 1..Len(s) : s[i] # 0 /\ \A j \in 1..(i - 1) : s[j] = 0, Len(s))

\* the number of zeros the coefficient ends with
NatTrailingZeros(s) ==
  IF NatIsZero(s) THEN 0
  ELSE Len(s) - CHOOSE i \in 1..Len(s) : s[i] # 0 /\ \A j \in (i + 1)..Len(s) : s[j] = 0

\* digit of weight 10^p
NatDigit(s, p) == IF p < Len(s) THEN s[Len(s) - p] ELSE 0

\* n applications of Step to s, halving n so that the evaluation stays shallow
RECURSIVE Iterate(_, _, _)
Iterate(Step(_), s, n) ==
  IF n <= 0 THEN s
  ELSE IF n = 1 THEN Step(s)
  ELSE The({Iterate(Step, m, n - n \div 2) : m \in {Iterate(Step, s, n \div 2)}})

RECURSIVE NatOfIntRec(_, _)
NatOfIntRec(n, acc) ==
  IF n < 10 THEN <<n>> \o acc ELSE NatOfIntRec(n \div 10, <<n % 10>> \o acc)

NatOfInt(n) == NatOfIntRec(n, <<>>)

RECURSIVE IntOfNatRec(_, _, _)
IntOfNatRec(s, i, acc) ==
  IF i > Len(s) THEN acc ELSE IntOfNatRec(s, i + 1, acc * 10 + s[i])

IntOfNat(s) == IntOfNatRec(s, 1, 0)

\* a + b, digit by digit from the least significant one
NatAdd(a, b) ==
  NatStrip(Iterate(LAMBDA s : The({[p |-> s.p + 1, carry |-> t \div 10,
                                    acc |-> <<t % 10>> \o s.acc]
                                   : t \in {NatDigit(a, s.p) + NatDigit(b, s.p) + s.carry}}),
                   [p |-> 0, carry |-> 0, acc |-> <<>>], Max2(Len(a), Len(b)) + 1).acc)

\* a - b for a >= b
NatSub(a, b) ==
  NatStrip(Iterate(LAMBDA s : The({[p |-> s.p + 1, borrow |-> IF t < 0 THEN 1 ELSE 0,
                                    acc |-> <<(t + 10) % 10>> \o s.acc]
                                   : t \in {NatDigit(a, s.p) - NatDigit(b, s.p) - s.borrow}}),
                   [p |-> 0, borrow |-> 0, acc |-> <<>>], Len(a)).acc)

\* -1, 0, 1 as a < b, a = b, a > b, for coefficients without leading zeros
NatCmpStripped(a, b) ==
  IF Len(a) # Len(b) THEN (IF Len(a) < Len(b) THEN -1 ELSE 1)
  ELSE IF a = b THEN 0
  ELSE The({IF a[m] < b[m] THEN -1 ELSE 1
            : m \in {CHOOSE i \in 1..Len(a) : a[i] # b[i] /\ \A j \in 1..(i - 1) : a[j] = b[j]}})

NatCmp(a, b) == NatCmpStripped(NatStrip(a), NatStrip(b))

\* the coefficient in groups of three digits, least significant group first
NatLimbs(a) ==
  <<>> \o [j \in 1..((Len(a) + 2) \div 3) |->
             NatDigit(a, 3 * j - 3) + 10 * NatDigit(a, 3 * j - 2) + 100 * NatDigit(a, 3 * j - 1)]

RECURSIVE NatConv(_, _, _, _, _)
NatConv(la, lb, k, lo, hi) ==
  IF lo > hi THEN 0
  ELSE IF lo = hi THEN la[lo] * lb[k + 1 - lo]
  ELSE NatConv(la, lb, k, lo, (lo + hi) \div 2) + NatConv(la, lb, k, (lo + hi) \div 2 + 1, hi)

\* schoolbook product over the groups
NatMulLimbs(la, lb) ==
  Iterate(LAMBDA s : The({[k |-> s.k + 1, carry |-> t \div 1000,
                           acc |-> <<(t \div 100) % 10, (t \div 10) % 10, t % 10>> \o s.acc]
                          : t \in {NatConv(la, lb, s.k, Max2(1, s.k + 1 - Len(lb)),
                                           Min2(s.k, Len(la))) + s.carry}}),
          [k |-> 1, carry |-> 0, acc |-> <<>>], Len(la) + Len(lb)).acc

NatMul(a, b) == NatStrip(NatMulLimbs(NatLimbs(a), NatLimbs(b)))

\* divmod(a, k) by long division, for a divisor that fits a machine word
NatDivSmall(a, k) ==
  The({[q |-> NatStrip(end.acc), r |-> NatOfInt(end.rem)]
       : end \in {Iterate(LAMBDA s : [i |-> s.i + 1, rem |-> (s.rem * 10 + a[s.i]) % k,
                                      acc |-> Append(s.acc, (s.rem * 10 + a[s.i]) \div k)],
                          [i |-> 1, rem |-> 0, acc |-> <<0>>], Len(a))}})

RECURSIVE NatQuotDigit(_, _, _)
NatQuotDigit(rem, b, q) ==
  IF NatCmp(rem, b) < 0 THEN [q |-> q, r |-> rem]
  ELSE NatQuotDigit(NatSub(rem, b), b, q + 1)

\* divmod(a, b) by long division
NatDivBig(a, b) ==
  The({[q |-> NatStrip(end.acc), r |-> NatStrip(end.rem)]
       : end \in {Iterate(LAMBDA s : The({[i |-> s.i + 1, rem |-> d.r, acc |-> Append(s.acc, d.q)]
                                          : d \in {NatQuotDigit(NatStrip(Append(s.rem, a[s.i])),
                                                                b, 0)}}),
                          [i |-> 1, rem |-> <<0>>, acc |-> <<0>>], Len(a))}})

\* divmod(a, b) for b > 0 without leading zeros
NatDivMod(a, b) == IF Len(b) <= 8 THEN NatDivSmall(a, IntOfNat(b)) ELSE NatDivBig(a, b)

(***************************************************************************)
(* Decimal arithmetic.  The operators ending in P take the precision.      *)
(***************************************************************************)
Dec(sign, int, exp) == [sign |-> sign, int |-> int, exp |-> exp]

DecOfInt(n) == IF n < 0 THEN Dec(1, NatOfInt(0 - n), 0) ELSE Dec(0, NatOfInt(n), 0)

DecIsZero(d) == NatIsZero(d.int)

\* round half even: whether the kept digits go up for the dropped ones
RoundsUp(keep, rest) ==
  \/ rest[1] > 5
  \/ rest[1] = 5 /\ \E i \in 2..Len(rest) : rest[i] # 0
  \/ rest[1] = 5 /\ keep[Len(keep)] % 2 = 1

\* the rounded coefficient, which may have grown by one digit
DecRounded(sign, coeff, exp, p) ==
  IF Len(coeff) > p THEN Dec(sign, SubSeq(coeff, 1, p), exp + 1) ELSE Dec(sign, coeff, exp)

\* Decimal._fix: round the coefficient to p digits, half to even
DecFixP(d, p) ==
  IF Len(d.int) <= p THEN d
  ELSE IF RoundsUp(SubSeq(d.int, 1, p), SubSeq(d.int, p + 1, Len(d.int)))
  THEN DecRounded(d.sign, NatAdd(SubSeq(d.int, 1, p), <<1>>), d.exp + Len(d.int) - p, p)
  ELSE Dec(d.sign, SubSeq(d.int, 1, p), d.exp + Len(d.int) - p)

DecNeg(d) == Dec(1 - d.sign, d.int, d.exp)

\* the coefficient of d at the exponent e <= d.exp
DecCoeffAt(d, e) == IF DecIsZero(d) THEN <<0>> ELSE d.int \o Zeros(d.exp - e)

\* the exact sum of two decimals given their coefficients at the exponent exp
\* and the order c of the coefficients
DecSum(a, b, ca, cb, c, exp) ==
  IF DecIsZero(a) /\ DecIsZero(b) THEN Dec(Min2(a.sign, b.sign), <<0>>, exp)
  ELSE IF a.sign = b.sign THEN Dec(a.sign, NatAdd(ca, cb), exp)
  ELSE IF c = 0 THEN Dec(0, <<0>>, exp)
  ELSE IF c > 0 THEN Dec(a.sign, NatSub(ca, cb), exp)
  ELSE Dec(b.sign, NatSub(cb, ca), exp)

\* Decimal.__add__
DecAddP(a, b, p) ==
  DecFixP(The({DecSum(a, b, ca, cb, NatCmp(ca, cb), Min2(a.exp, b.exp))
               : ca \in {DecCoeffAt(a, Min2(a.exp, b.exp))},
                 cb \in {DecCoeffAt(b, Min2(a.exp, b.exp))}}), p)

\* Decimal.__sub__
DecSubP(a, b, p) == DecAddP(a, DecNeg(b), p)

\* Decimal.__mul__
DecMulP(a, b, p) ==
  IF DecIsZero(a) \/ DecIsZero(b) THEN Dec((a.sign + b.sign) % 2, <<0>>, a.exp + b.exp)
  ELSE DecFixP(Dec((a.sign + b.sign) % 2, NatMul(a.int, b.int), a.exp + b.exp), p)

\* an exact quotient is brought as close to the ideal exponent as its
\* trailing zeros allow
DecIdeal(sign, coeff, exp, ideal) ==
  The({Dec(sign, SubSeq(coeff, 1, Len(coeff) - drop), exp + drop)
       : drop \in {Max2(0, Min2(NatTrailingZeros(coeff), ideal - exp))}})

\* the quotient before rounding: exact, or with a digit that keeps the
\* remainder visible to the rounding
DecQuot(sign, dm, exp, ideal) ==
  IF NatIsZero(dm.r) THEN DecIdeal(sign, dm.q, exp, ideal)
  ELSE IF dm.q[Len(dm.q)] % 5 = 0 THEN Dec(sign, NatAdd(dm.q, <<1>>), exp)
  ELSE Dec(sign, dm.q, exp)

\* the coefficient of a shifted by shift digits, divided by that of b
DecDivShifted(a, b, shift) ==
  IF shift >= 0 THEN NatDivMod(a.int \o Zeros(shift), NatStrip(b.int))
  ELSE NatDivMod(a.int, NatStrip(b.int \o Zeros(0 - shift)))

\* Decimal.__truediv__ for a nonzero divisor
DecDivP(a, b, p) ==
  IF DecIsZero(a) THEN Dec((a.sign + b.sign) % 2, <<0>>, a.exp - b.exp)
  ELSE DecFixP(DecQuot((a.sign + b.sign) % 2,
                       DecDivShifted(a, b, Len(b.int) - Len(a.int) + p + 1),
                       a.exp - b.exp - (Len(b.int) - Len(a.int) + p + 1),
                       a.exp - b.exp), p)

\* the order of two decimals by value: -1, 0, 1
DecCmp(a, b) ==
  IF DecIsZero(a) /\ DecIsZero(b) THEN 0
  ELSE IF DecIsZero(a) THEN (IF b.sign = 1 THEN 1 ELSE -1)
  ELSE IF DecIsZero(b) THEN (IF a.sign = 1 THEN -1 ELSE 1)
  ELSE IF a.sign # b.sign THEN (IF a.sign = 1 THEN -1 ELSE 1)
  ELSE (IF a.sign = 1 THEN -1 ELSE 1)
       * NatCmp(DecCoeffAt(a, Min2(a.exp, b.exp)), DecCoeffAt(b, Min2(a.exp, b.exp)))

DecEq(a, b) == DecCmp(a, b) = 0

DecLe(a, b) == DecCmp(a, b) <= 0

\* max(a, b) of two decimals: the first one unless the second is greater
DecMax(a, b) == IF DecCmp(b, a) > 0 THEN b ELSE a

\* Decimal.__int__: truncation towards zero
DecToInt(d) ==
  (IF d.sign = 1 THEN -1 ELSE 1)
  * IntOfNat(IF d.exp >= 0 THEN d.int \o Zeros(d.exp)
             ELSE IF Len(d.int) + d.exp <= 0 THEN <<0>>
             ELSE SubSeq(d.int, 1, Len(d.int) + d.exp))

DecIsInteger(d) ==
  \/ d.exp >= 0
  \/ \A i \in 1..Len(d.int) : i > Len(d.int) + d.exp => d.int[i] = 0

DecAdd(a, b) == DecAddP(a, b, Prec)

DecSub(a, b) == DecSubP(a, b, Prec)

DecMul(a, b) == DecMulP(a, b, Prec)

DecDiv(a, b) == DecDivP(a, b, Prec)

(***************************************************************************)
(* Decimal.__pow__.  The library computes a power with a fractional        *)
(* exponent through exp and ln at a raised precision and rounds the result *)
(* to the context; PowPrec is that raised precision here.                  *)
(***************************************************************************)
PowPrec == Prec + 6

\* position of the most significant digit (Decimal.adjusted)
DecAdjusted(d) == d.exp + Len(d.int) - 1

DecNegligible(d) == DecIsZero(d) \/ DecAdjusted(d) < 0 - (PowPrec + 2)

\* the series are cut when a term no longer shows at PowPrec digits
PowTerms == 4 * PowPrec

\* one more term of z + z^3/3 + z^5/5 + ..., zz = z^2
DecAtanhTerm(s, zz, term) ==
  IF DecNegligible(term) THEN s
  ELSE [pw |-> DecMulP(s.pw, zz, PowPrec), k |-> s.k + 1, acc |-> DecAddP(s.acc, term, PowPrec)]

DecAtanhSeries(z, zz) ==
  Iterate(LAMBDA s : DecAtanhTerm(s, zz, DecDivP(s.pw, DecOfInt(2 * s.k + 1), PowPrec)),
          [pw |-> z, k |-> 0, acc |-> DecOfInt(0)], PowTerms).acc

DecAtanh(z) == DecAtanhSeries(z, DecMulP(z, z, PowPrec))

\* ln x for x > 0, as 2 atanh((x - 1) / (x + 1))
DecLn(x) ==
  DecMulP(DecOfInt(2),
          DecAtanh(DecDivP(DecSubP(x, DecOfInt(1), PowPrec), DecAddP(x, DecOfInt(1), PowPrec),
                           PowPrec)),
          PowPrec)

\* exp t = 1 + t + t^2/2! + ...
DecExp(t) ==
  Iterate(LAMBDA s : IF DecNegligible(s.term) THEN s
                     ELSE [term |-> DecDivP(DecMulP(s.term, t, PowPrec), DecOfInt(s.k + 1),
                                            PowPrec),
                           k |-> s.k + 1, acc |-> DecAddP(s.acc, s.term, PowPrec)],
          [term |-> DecOfInt(1), k |-> 0, acc |-> DecOfInt(0)], PowTerms).acc

\* x ** n for an integer n >= 0
DecPowInt(x, n) == Iterate(LAMBDA s : DecMulP(s, x, PowPrec), DecOfInt(1), n)

\* |x| ** y for x # 0, before the rounding to the context
DecPowMag(xabs, y, n) ==
  IF ~DecIsInteger(y) THEN The({DecExp(t) : t \in {DecMulP(y, DecLn(xabs), PowPrec)}})
  ELSE IF n >= 0 THEN DecPowInt(xabs, n)
  ELSE DecDivP(DecOfInt(1), DecPowInt(xabs, 0 - n), PowPrec)

DecPowSigned(sign, val) == [raised |-> FALSE, val |-> Dec(sign, val.int, val.exp)]

\* x ** y; raised is the InvalidOperation of 0 ** 0 and of a negative base
\* with a fractional exponent.  0 ** y for y < 0 (Infinity) is not represented.
DecPow(x, y) ==
  IF DecIsZero(y)
  THEN (IF DecIsZero(x) THEN [raised |-> TRUE, val |-> x]
        ELSE [raised |-> FALSE, val |-> DecOfInt(1)])
  ELSE IF DecIsZero(x) THEN [raised |-> FALSE, val |-> DecOfInt(0)]
  ELSE IF x.sign = 1 /\ ~DecIsInteger(y) THEN [raised |-> TRUE, val |-> x]
  ELSE DecPowSigned(IF x.sign = 1 /\ DecToInt(y) % 2 # 0 THEN 1 ELSE 0,
                    DecFixP(DecPowMag(Dec(0, x.int, x.exp), y, DecToInt(y)), Prec))

(***************************************************************************)
(* Text.  A str is a sequence of one-character strings.                    *)
(***************************************************************************)
DigitChars == <<"0", "1", "2", "3", "4", "5", "6", "7", "8", "9">>

HexChars == DigitChars \o <<"a", "b", "c", "d", "e", "f">>

CharOfDigit(d) == HexChars[d + 1]

DigitOfChar(c) == (CHOOSE i \in 1..16 : HexChars[i] = c) - 1

IsDigitChar(c) == \E i \in 1..10 : DigitChars[i] = c

StrOfNat(s) == [i \in 1..Len(s) |-> CharOfDigit(s[i])]

NatOfStr(t) == [i \in 1..Len(t) |-> DigitOfChar(t[i])]

\* the first index of the character c in t, or 0
IndexOf(t, c) ==
  IF \A i \in 1..Len(t) : t[i] # c THEN 0
  ELSE CHOOSE i \in 1..Len(t) : t[i] = c /\ \A j \in 1..(i - 1) : t[j] # c

\* "%0<width>d" of a natural number
ZeroPadded(n, width) ==
  The({IF Len(ds) >= width THEN ds ELSE [i \in 1..(width - Len(ds)) |-> "0"] \o ds
       : ds \in {StrOfNat(NatOfInt(n))}})

\* "%+d"
SignedStr(n) ==
  IF n < 0 THEN <<"-">> \o StrOfNat(NatOfInt(0 - n)) ELSE <<"+">> \o StrOfNat(NatOfInt(n))

\* int() of an optionally signed digit string
IntOfStr(t) ==
  IF t[1] = "-" THEN 0 - IntOfNat(NatOfStr(Tail(t)))
  ELSE IF t[1] = "+" THEN IntOfNat(NatOfStr(Tail(t)))
  ELSE IntOfNat(NatOfStr(t))

\* the digits ds of a coefficient of n digits with the point after dotplace
\* of them, and the exponent that is left
DecPlaced(sign, ds, n, leftdigits, dotplace) ==
  (IF sign = 1 THEN <<"-">> ELSE <<>>)
  \o (IF dotplace <= 0 THEN <<"0">>
      ELSE IF dotplace >= n THEN ds \o [i \in 1..(dotplace - n) |-> "0"]
      ELSE SubSeq(ds, 1, dotplace))
  \o (IF dotplace <= 0 THEN <<".">> \o [i \in 1..(0 - dotplace) |-> "0"] \o ds
      ELSE IF dotplace >= n THEN <<>>
      ELSE <<".">> \o SubSeq(ds, dotplace + 1, n))
  \o (IF leftdigits = dotplace THEN <<>> ELSE <<"E">> \o SignedStr(leftdigits - dotplace))

\* Decimal.__str__ (scientific notation, not engineering)
DecStr(d) ==
  DecPlaced(d.sign, StrOfNat(d.int), Len(d.int), d.exp + Len(d.int),
            IF d.exp <= 0 /\ d.exp + Len(d.int) > -6 THEN d.exp + Len(d.int) ELSE 1)

\* the numeral mant with the point at index dot (0 for none) and the exponent exp
DecOfMantissa(sign, mant, dot, exp) ==
  IF dot = 0 THEN Dec(sign, NatStrip(NatOfStr(mant)), exp)
  ELSE Dec(sign, NatStrip(NatOfStr(SubSeq(mant, 1, dot - 1) \o SubSeq(mant, dot + 1, Len(mant)))),
           exp - (Len(mant) - dot))

\* the unsigned numeral body with its "E" at index e (0 for none)
DecOfUnsigned(sign, body, e) ==
  IF e = 0 THEN DecOfMantissa(sign, body, IndexOf(body, "."), 0)
  ELSE DecOfMantissa(sign, SubSeq(body, 1, e - 1), IndexOf(SubSeq(body, 1, e - 1), "."),
                     IntOfStr(SubSeq(body, e + 1, Len(body))))

\* Decimal(str) for a finite decimal numeral
DecOfStr(t) ==
  IF t[1] = "-" THEN DecOfUnsigned(1, Tail(t), IndexOf(Tail(t), "E"))
  ELSE IF t[1] = "+" THEN DecOfUnsigned(0, Tail(t), IndexOf(Tail(t), "E"))
  ELSE DecOfUnsigned(0, t, IndexOf(t, "E"))

(***************************************************************************)
(* datetime.date                                                           *)
(***************************************************************************)
Date(y, m, d) == [year |-> y, month |-> m, day |-> d]

IsLeap(y) == y % 4 = 0 /\ (y % 100 # 0 \/ y % 400 = 0)

DaysInMonth(y, m) ==
  IF m = 2 THEN (IF IsLeap(y) THEN 29 ELSE 28)
  ELSE IF m \in {4, 6, 9, 11} THEN 30 ELSE 31

DaysBeforeYear(y) == (y - 1) * 365 + (y - 1) \div 4 - (y - 1) \div 100 + (y - 1) \div 400

RECURSIVE DaysBeforeMonth(_, _)
DaysBeforeMonth(y, m) ==
  IF m = 1 THEN 0 ELSE DaysBeforeMonth(y, m - 1) + DaysInMonth(y, m - 1)

\* date.toordinal
ToOrdinal(d) == DaysBeforeYear(d.year) + DaysBeforeMonth(d.year, d.month) + d.day

\* a day count that includes both end days, which (a - b).days does not
DaysInclusive(a, b) == ToOrdinal(a) - ToOrdinal(b) + 1

\* (a - b).days
DaysBetween(a, b) == ToOrdinal(a) - ToOrdinal(b)

\* date.isoformat
IsoFormat(d) ==
  ZeroPadded(d.year, 4) \o <<"-">> \o ZeroPadded(d.month, 2) \o <<"-">> \o ZeroPadded(d.day, 2)

\* date.fromisoformat
FromIsoFormat(t) ==
  Date(IntOfStr(SubSeq(t, 1, 4)), IntOfStr(SubSeq(t, 6, 7)), IntOfStr(SubSeq(t, 9, 10)))

(***************************************************************************)
(* uuid.UUID: the 128-bit integer; str() is its 8-4-4-4-12 hexadecimal     *)
(* form.                                                                   *)
(***************************************************************************)
\* "%0<width>x" of an integer below 16^8
HexDigits(n, width) ==
  [i \in 1..width |-> IF width - i >= 8 THEN "0" ELSE CharOfDigit((n \div (16 ^ (width - i))) % 16)]

UuidStr(u) ==
  The({SubSeq(h, 1, 8) \o <<"-">> \o SubSeq(h, 9, 12) \o <<"-">> \o SubSeq(h, 13, 16)
         \o <<"-">> \o SubSeq(h, 17, 20) \o <<"-">> \o SubSeq(h, 21, 32)
       : h \in {HexDigits(u, 32)}})

\* UUID(hex string): int(hex, 16) of the string without its dashes
UuidOfStr(t) ==
  Iterate(LAMBDA s : IF t[s.i] = "-" THEN [i |-> s.i + 1, acc |-> s.acc]
                     ELSE [i |-> s.i + 1, acc |-> s.acc * 16 + DigitOfChar(t[s.i])],
          [i |-> 1, acc |-> 0], Len(t)).acc

(***************************************************************************)
(* Enumerations: member name |-> value (the label that is stored).         *)
(***************************************************************************)
AssetStatus ==
  [ACTIVE |-> "Active", INACTIVE |-> "Inactive", MAINTENANCE |-> "Under Maintenance",
   DISPOSED |-> "Disposed"]

DepreciationMethod ==
  [STRAIGHT_LINE |-> "Straight Line", DECLINING_BALANCE |-> "Declining Balance",
   SUM_OF_YEARS_DIGITS |-> "Sum of Years Digits"]

MaintenanceType ==
  [PREVENTIVE |-> "Preventive", CORRECTIVE |-> "Corrective", PREDICTIVE |-> "Predictive"]

MaintenanceStatus ==
  [SCHEDULED |-> "Scheduled", IN_PROGRESS |-> "In Progress", COMPLETED |-> "Completed",
   CANCELLED |-> "Cancelled"]

InventoryStatus ==
  [IN_STOCK |-> "In Stock", OUT_OF_STOCK |-> "Out of Stock", RESERVED |-> "Reserved"]

\* Enum(value): the member with that value
EnumOfValue(enum, label) == CHOOSE m \in DOMAIN enum : enum[m] = label

(***************************************************************************)
(* The dataclasses.  cls is the Python type of the value: a dataclass, or  *)
(* "dict" for a dict (the one dataclasses.asdict builds holds the field    *)
(* values as they are; the one json.load returns holds their strings).     *)
(* None is "None".                                                         *)
(***************************************************************************)
None == "None"

Asset(id, name, purchase_date, purchase_price, current_value, useful_life_years, status, depreciation_method, salvage_value, maintenance_records) ==
  [cls |-> "Asset", name |-> name, purchase_date |-> purchase_date,
   purchase_price |-> purchase_price, current_value |-> current_value,
   location |-> "Main Office", category |-> "IT Equipment",
   useful_life_years |-> useful_life_years, id |-> id, status |-> status,
   depreciation_method |-> depreciation_method, salvage_value |-> salvage_value,
   serial_number |-> None, description |-> None,
   maintenance_records |-> maintenance_records]

Maintenance(id, asset_id, date, cost, maintenance_type, status) ==
  [cls |-> "Maintenance", asset_id |-> asset_id, date |-> date,
   description |-> "Annual checkup and software update", cost |-> cost,
   performed_by |-> "IT Department", maintenance_type |-> maintenance_type, id |-> id,
   status |-> status, notes |-> None]

InventoryItem(id, name, quantity, cost_per_item, status) ==
  [cls |-> "InventoryItem", name |-> name, quantity |-> quantity,
   cost_per_item |-> cost_per_item, status |-> status, id |-> id]

\* dataclasses.asdict: recurses into dataclass instances, lists and dicts
AsDict(x) ==
  IF x.cls = "Asset"
  THEN [x EXCEPT !.cls = "dict",
                 !.maintenance_records =
                    [i \in 1..Len(@) |-> IF @[i].cls = "Maintenance"
                                         THEN [@[i] EXCEPT !.cls = "dict"] ELSE @[i]]]
  ELSE [x EXCEPT !.cls = "dict"]

\* Asset.to_dict
AssetToDict(self) ==
  [AsDict(self) EXCEPT !.id = UuidStr(self.id),
                       !.purchase_date = IsoFormat(self.purchase_date),
                       !.purchase_price = DecStr(self.purchase_price),
                       !.current_value = DecStr(self.current_value),
                       !.salvage_value = DecStr(self.salvage_value),
                       !.status = AssetStatus[self.status],
                       !.depreciation_method = DepreciationMethod[self.depreciation_method]]

\* Asset.from_dict: cls(**data) after the conversions; maintenance_records is
\* passed on as it is in data
AssetFromDict(data) ==
  [data EXCEPT !.cls = "Asset",
               !.id = UuidOfStr(data.id),
               !.purchase_date = FromIsoFormat(data.purchase_date),
               !.purchase_price = DecOfStr(data.purchase_price),
               !.current_value = DecOfStr(data.current_value),
               !.salvage_value = DecOfStr(data.salvage_value),
               !.status = EnumOfValue(AssetStatus, data.status),
               !.depreciation_method = EnumOfValue(DepreciationMethod, data.depreciation_method)]

\* Maintenance.to_dict
MaintenanceToDict(self) ==
  [AsDict(self) EXCEPT !.id = UuidStr(self.id),
                       !.asset_id = UuidStr(self.asset_id),
                       !.date = IsoFormat(self.date),
                       !.cost = DecStr(self.cost),
                       !.maintenance_type = MaintenanceType[self.maintenance_type],
                       !.status = MaintenanceStatus[self.status]]

\* Maintenance.from_dict
MaintenanceFromDict(data) ==
  [data EXCEPT !.cls = "Maintenance",
               !.id = UuidOfStr(data.id),
               !.asset_id = UuidOfStr(data.asset_id),
               !.date = FromIsoFormat(data.date),
               !.cost = DecOfStr(data.cost),
               !.maintenance_type = EnumOfValue(MaintenanceType, data.maintenance_type),
               !.status = EnumOfValue(MaintenanceStatus, data.status)]

\* InventoryItem.to_dict
InventoryItemToDict(self) ==
  [AsDict(self) EXCEPT !.id = UuidStr(self.id),
                       !.cost_per_item = DecStr(self.cost_per_item),
                       !.status = InventoryStatus[self.status]]

\* InventoryItem.from_dict
InventoryItemFromDict(data) ==
  [data EXCEPT !.cls = "InventoryItem",
               !.id = UuidOfStr(data.id),
               !.cost_per_item = DecOfStr(data.cost_per_item),
               !.status = EnumOfValue(InventoryStatus, data.status)]

ToDict(x) ==
  IF x.cls = "Asset" THEN AssetToDict(x)
  ELSE IF x.cls = "Maintenance" THEN MaintenanceToDict(x)
  ELSE InventoryItemToDict(x)

(***************************************************************************)
(* Asset.depreciate.  The result is the asset after the call and whether   *)
(* the call raised (an arithmetic error of decimal).                       *)
(***************************************************************************)
Decimal36525 == Dec(0, <<3, 6, 5, 2, 5>>, -2)

YearsPassed(self, as_of_date) ==
  DecDiv(DecOfInt(DaysBetween(as_of_date, self.purchase_date)), Decimal36525)

\* sum(range(lo, hi))
RECURSIVE SumRange(_, _)
SumRange(lo, hi) ==
  IF lo >= hi THEN 0
  ELSE IF hi - lo = 1 THEN lo
  ELSE SumRange(lo, (lo + hi) \div 2) + SumRange((lo + hi) \div 2, hi)

\* one term of the generator: (life - year) / Decimal(sum_of_years) * (price - salvage)
YearTerm(self, sum_of_years, year) ==
  DecMul(DecDiv(DecOfInt(self.useful_life_years - year), DecOfInt(sum_of_years)),
         DecSub(self.purchase_price, self.salvage_value))

\* sum(... for year in range(stop)), which starts from the integer 0
TotalDepreciation(self, sum_of_years, stop) ==
  Iterate(LAMBDA s : [year |-> s.year + 1,
                      total |-> DecAdd(s.total, YearTerm(self, sum_of_years, s.year))],
          [year |-> 0, total |-> DecOfInt(0)], stop).total

Returned(self) == [raised |-> FALSE, asset |-> self]

Raised(self) == [raised |-> TRUE, asset |-> self]

\* a straight line that starts from current_value instead of purchase_price,
\* which depreciate does not do
StraightLineFromCurrent(self, years_passed) ==
  IF self.useful_life_years = 0 THEN Raised(self)
  ELSE Returned([self EXCEPT !.current_value =
         DecMax(DecSub(self.current_value,
                       DecMul(DecDiv(DecSub(self.current_value, self.salvage_value),
                                     DecOfInt(self.useful_life_years)),
                              years_passed)),
                self.salvage_value)])

StraightLine(self, years_passed) ==
  IF self.useful_life_years = 0 THEN Raised(self)
  ELSE Returned([self EXCEPT !.current_value =
         DecMax(DecSub(self.purchase_price,
                       DecMul(DecDiv(DecSub(self.purchase_price, self.salvage_value),
                                     DecOfInt(self.useful_life_years)),
                              years_passed)),
                self.salvage_value)])

\* the value for purchase_price * (1 - rate) ** years_passed
DecliningValue(self, power) ==
  IF power.raised THEN Raised(self)
  ELSE Returned([self EXCEPT !.current_value =
         DecMax(DecMul(self.purchase_price, power.val), self.salvage_value)])

DecliningBalance(self, years_passed) ==
  IF self.useful_life_years = 0 THEN Raised(self)
  ELSE DecliningValue(self,
         DecPow(DecSub(DecOfInt(1), DecDiv(DecOfInt(2), DecOfInt(self.useful_life_years))),
                years_passed))

SumOfYearsDigits(self, years_passed) ==
  Returned([self EXCEPT !.current_value =
    DecMax(DecSub(self.purchase_price,
                  TotalDepreciation(self, SumRange(1, self.useful_life_years + 1),
                                    DecToInt(years_passed))),
           self.salvage_value)])

\* the branches of depreciate for an active asset
DepreciateActive(self, years_passed) ==
  IF DecCmp(years_passed, DecOfInt(self.useful_life_years)) > 0
  THEN Returned([self EXCEPT !.current_value = self.salvage_value])
  ELSE IF self.depreciation_method = "STRAIGHT_LINE" THEN StraightLine(self, years_passed)
  ELSE IF self.depreciation_method = "DECLINING_BALANCE"
  THEN DecliningBalance(self, years_passed)
  ELSE SumOfYearsDigits(self, years_passed)

\* a depreciate without the status check of its first line
DepreciateAnyStatus(self, as_of_date) ==
  DepreciateActive(self, YearsPassed(self, as_of_date))

Depreciate(self, as_of_date) ==
  IF self.status # "ACTIVE" THEN Returned(self)
  ELSE DepreciateActive(self, YearsPassed(self, as_of_date))

(***************************************************************************)
(* The entities the operations are called with.                            *)
(***************************************************************************)
Money(units, cents) == Dec(0, NatOfInt(units * 100 + cents), -2)

Checkup == Maintenance(3, 1, Date(2023, 6, 15), Money(150, 0), "PREVENTIVE", "SCHEDULED")

CheckupDone == Maintenance(3, 1, Date(2023, 6, 15), Money(150, 0), "PREVENTIVE", "COMPLETED")

Charger == InventoryItem(4, "Spare Laptop Charger", 50, Money(25, 0), "IN_STOCK")

ChargerSoldOut == InventoryItem(4, "Spare Laptop Charger", 0, Money(25, 0), "OUT_OF_STOCK")

\* the asset of main()
Laptop ==
  Asset(1, "Company Laptop", Date(2023, 1, 1), Money(1500, 0), Money(1500, 0), 3, "ACTIVE",
        "STRAIGHT_LINE", Money(300, 0), <<>>)

LaptopStored == [Laptop EXCEPT !.status = "INACTIVE"]

LaptopServiced == [Laptop EXCEPT !.maintenance_records = <<Checkup>>]

Server ==
  Asset(2, "Server", Date(2020, 1, 1), Money(1000, 0), Money(1000, 0), 5, "ACTIVE",
        "DECLINING_BALANCE", Money(100, 0), <<>>)

Scanner ==
  Asset(2, "Scanner", Date(2023, 7, 1), Money(200, 0), Money(200, 0), 1, "ACTIVE",
        "DECLINING_BALANCE", Money(20, 0), <<>>)

ServerRetired == [Server EXCEPT !.status = "DISPOSED"]

Repos == {"assets", "maintenances", "inventory"}

ManagedClass(r) ==
  IF r = "assets" THEN "Asset" ELSE IF r = "maintenances" THEN "Maintenance" ELSE "InventoryItem"

\* arguments of add and update: entities of the managed type and one of another type
Inputs(r) ==
  IF r = "assets" THEN {Laptop, LaptopStored, Server, ServerRetired, Scanner, Checkup}
  ELSE IF r = "maintenances" THEN {Checkup, CheckupDone, Charger}
  ELSE {Charger, ChargerSoldOut, Laptop}

InputIds(r) == {e.id : e \in Inputs(r)}

AsOfDates == {Date(2016, 1, 1), Date(2024, 1, 1), Date(2028, 1, 1)}

(***************************************************************************)
(* FileHandler and the documents.  A document is missing, or holds         *)
(* well-formed JSON (items: the key/value pairs in file order), or holds   *)
(* text that is not JSON.                                                  *)
(***************************************************************************)
MissingDoc == [exists |-> FALSE, wellformed |-> FALSE, items |-> <<>>]

JsonDoc(items) == [exists |-> TRUE, wellformed |-> TRUE, items |-> items]

BrokenDoc == [exists |-> TRUE, wellformed |-> FALSE, items |-> <<>>]

\* FileHandler._json_serializer on the values of one maintenance record that
\* asdict left as they are
JsonSerializer(m) ==
  IF m.maintenance_type \in DOMAIN MaintenanceType
  THEN [m EXCEPT !.id = UuidStr(@), !.asset_id = UuidStr(@), !.date = IsoFormat(@),
                 !.cost = DecStr(@), !.maintenance_type = MaintenanceType[@],
                 !.status = MaintenanceStatus[@]]
  ELSE m

\* json.dump(value, default=_json_serializer) followed by json.load
JsonValue(d) ==
  IF "maintenance_records" \in DOMAIN d
  THEN [d EXCEPT !.maintenance_records = [i \in 1..Len(@) |-> JsonSerializer(@[i])]]
  ELSE d

\* FileHandler.load under error_handler: an exception becomes the returned
\* error response
FileHandlerLoad(d) ==
  IF ~d.exists THEN [error |-> FALSE, data |-> <<>>]
  ELSE IF d.wellformed THEN [error |-> FALSE, data |-> d.items]
  ELSE [error |-> TRUE, data |-> <<>>]

\* FileHandler.save: the outcomes of open(filename, 'w') and json.dump
SaveOutcomes == {"written", "open failed", "dump failed"}

\* a save that keeps the stored pairs whose keys are not in data, which
\* open(filename, 'w') does not do
FileHandlerSaveMerged(d, data, outcome) ==
  IF outcome = "written"
  THEN JsonDoc(SelectSeq(d.items, LAMBDA kv : \A i \in 1..Len(data) : data[i].key # kv.key)
               \o [i \in 1..Len(data) |->
                     [key |-> data[i].key, value |-> JsonValue(data[i].value)]])
  ELSE IF outcome = "open failed" THEN d
  ELSE BrokenDoc

FileHandlerSave(d, data, outcome) ==
  IF outcome = "written" THEN JsonDoc([i \in 1..Len(data) |->
                                         [key |-> data[i].key, value |-> JsonValue(data[i].value)]])
  ELSE IF outcome = "open failed" THEN d
  ELSE BrokenDoc

(***************************************************************************)
(* The services.  A collection is a Python dict: the key/value pairs in    *)
(* insertion order.                                                        *)
(***************************************************************************)
DictHas(d, k) == \E i \in 1..Len(d) : d[i].key = k

DictSet(d, k, v) ==
  IF DictHas(d, k) THEN [i \in 1..Len(d) |-> IF d[i].key = k THEN [key |-> k, value |-> v] ELSE d[i]]
  ELSE Append(d, [key |-> k, value |-> v])

DictDel(d, k) == SelectSeq(d, LAMBDA kv : kv.key # k)

FromDict(r, data) ==
  IF r = "assets" THEN AssetFromDict(data)
  ELSE IF r = "maintenances" THEN MaintenanceFromDict(data)
  ELSE InventoryItemFromDict(data)

\* _load_assets, _load_maintenances, _load_inventory on the loaded data
Loaded(r, data) ==
  [i \in 1..Len(data) |-> [key |-> UuidOfStr(data[i].key), value |-> FromDict(r, data[i].value)]]

\* the data _save_assets, _save_maintenances, _save_inventory hand to save
Saved(collection) ==
  [i \in 1..Len(collection) |->
     [key |-> UuidStr(collection[i].key), value |-> ToDict(collection[i].value)]]

(***************************************************************************)
(* State.                                                                  *)
(***************************************************************************)
VARIABLES
  repo,    \* which of the three services and documents the behaviour is about
  doc,     \* the backing document
  live,    \* live[i]: service instance i is constructed
  mem,     \* mem[i]: the collection of instance i (assets, maintenances, inventory)
  hist,    \* hist[i]: what instance i was asked to do since its construction
  writer,  \* the instance whose save wrote the document last, 0 for none
  faults,  \* number of failed saves so far
  last,    \* the last call and what its caller got
  obj,     \* the entity the direct calls (depreciate, to_dict, from_dict) are made on
  engine,  \* the depreciate calls made on obj
  rt       \* the value from_dict(to_dict(obj)) of the last round trip

vars == <<repo, doc, live, mem, hist, writer, faults, last, obj, engine, rt>>

MaxFaults == 1

MaxCalls == 2

Instances == {1, 2}

NoDate == Date(1, 1, 1)

Call(op, i, key, cls, result, write) ==
  [op |-> op, inst |-> i, key |-> key, cls |-> cls, result |-> result, write |-> write]

Fresh == [ops |-> 0, added |-> 0]

\* what one more call makes of hist[i]
Asked(h, added) == [ops |-> 1, added |-> IF h.ops = 0 THEN added ELSE 0]

entityIdle == /\ obj = Laptop
              /\ engine = [as_of |-> NoDate, calls |-> 0, raised |-> FALSE]
              /\ rt = <<>>

serviceIdle == /\ repo = "assets"
               /\ doc = MissingDoc
               /\ live = [i \in Instances |-> FALSE]
               /\ mem = [i \in Instances |-> <<>>]
               /\ hist = [i \in Instances |-> Fresh]
               /\ writer = 0
               /\ faults = 0

Init ==
  /\ repo \in Repos
  /\ doc = MissingDoc
  /\ live = [i \in Instances |-> FALSE]
  /\ mem = [i \in Instances |-> <<>>]
  /\ hist = [i \in Instances |-> Fresh]
  /\ writer = 0
  /\ faults = 0
  /\ last = Call("none", 0, 0, "none", "ok", "none")
  /\ entityIdle

\* __init__ and _load_*: the document is missing or well-formed
ConstructLoaded(i) ==
  /\ ~FileHandlerLoad(doc).error
  /\ live' = [live EXCEPT ![i] = TRUE]
  /\ mem' = [mem EXCEPT ![i] = Loaded(repo, FileHandlerLoad(doc).data)]
  /\ hist' = [hist EXCEPT ![i] = Fresh]
  /\ last' = Call("construct", i, 0, "none", "ok", "none")
  /\ UNCHANGED <<repo, doc, writer, faults, obj, engine, rt>>

\* __init__ and _load_*: load returned the error response, and data.items()
\* raises AttributeError out of the constructor
ConstructFailed(i) ==
  /\ FileHandlerLoad(doc).error
  /\ live' = [live EXCEPT ![i] = FALSE]
  /\ mem' = [mem EXCEPT ![i] = <<>>]
  /\ hist' = [hist EXCEPT ![i] = Fresh]
  /\ last' = Call("construct", i, 0, "none", "raised", "none")
  /\ UNCHANGED <<repo, doc, writer, faults, obj, engine, rt>>

\* a call that ends in the error response of error_handler before anything
\* is changed
Rejected(i, op, key, cls, result) ==
  /\ last' = Call(op, i, key, cls, result, "none")
  /\ hist' = [hist EXCEPT ![i] = Asked(@, 0)]
  /\ UNCHANGED <<repo, doc, live, mem, writer, faults, obj, engine, rt>>

\* the collection is replaced and _save_* runs; save returns its error
\* response to _save_*, which drops it, so the call returns None either way
Persisted(i, op, key, cls, collection) ==
  \E outcome \in SaveOutcomes :
    /\ outcome # "written" => faults < MaxFaults
    /\ faults' = IF outcome = "written" THEN faults ELSE faults + 1
    /\ mem' = [mem EXCEPT ![i] = collection]
    /\ doc' = FileHandlerSave(doc, Saved(collection), outcome)
    /\ writer' = IF outcome = "written" THEN i ELSE writer
    /\ hist' = [hist EXCEPT ![i] = Asked(@, IF op = "add" /\ outcome = "written" THEN key ELSE 0)]
    /\ last' = Call(op, i, key, cls, "ok", outcome)
    /\ UNCHANGED <<repo, live, obj, engine, rt>>

\* add_asset, add_maintenance, add_inventory_item
Add(i, e) ==
  /\ live[i]
  /\ IF e.cls # ManagedClass(repo) THEN Rejected(i, "add", e.id, e.cls, "InvalidData")
     ELSE Persisted(i, "add", e.id, e.cls, DictSet(mem[i], e.id, e))

\* an update that stores the entity whether or not its id is a key
UpdateUnchecked(i, e) ==
  /\ live[i]
  /\ IF repo # "inventory" /\ e.cls # ManagedClass(repo)
     THEN Rejected(i, "update", e.id, e.cls, "InvalidData")
     ELSE Persisted(i, "update", e.id, e.cls, DictSet(mem[i], e.id, e))

\* update_asset, update_maintenance, update_inventory_item (which has no
\* validate_input)
Update(i, e) ==
  /\ live[i]
  /\ IF repo # "inventory" /\ e.cls # ManagedClass(repo)
     THEN Rejected(i, "update", e.id, e.cls, "InvalidData")
     ELSE IF ~DictHas(mem[i], e.id) THEN Rejected(i, "update", e.id, e.cls, "NotFound")
     ELSE Persisted(i, "update", e.id, e.cls, DictSet(mem[i], e.id, e))

\* delete_asset, delete_maintenance, delete_inventory_item
Delete(i, id) ==
  /\ live[i]
  /\ IF ~DictHas(mem[i], id) THEN Rejected(i, "delete", id, "none", "NotFound")
     ELSE Persisted(i, "delete", id, "none", DictDel(mem[i], id))

\* the loop of depreciate_all_assets: it stops at the first asset whose
\* depreciate raises
RevaluedOne(s, r) ==
  IF r.raised THEN [s EXCEPT !.raised = TRUE]
  ELSE [i |-> s.i + 1, raised |-> FALSE, assets |-> [s.assets EXCEPT ![s.i].value = r.asset]]

Revalued(collection, as_of_date) ==
  Iterate(LAMBDA s : IF s.raised THEN s
                     ELSE RevaluedOne(s, Depreciate(s.assets[s.i].value, as_of_date)),
          [i |-> 1, raised |-> FALSE, assets |-> collection], Len(collection))

\* depreciate_all_assets: every asset is revalued, then the collection is saved
DepreciateAll(i, as_of_date) ==
  /\ live[i]
  /\ repo = "assets"
  /\ \E r \in {Revalued(mem[i], as_of_date)} :
       /\ ~r.raised
       /\ Persisted(i, "depreciate_all", 0, "none", r.assets)

\* depreciate_all_assets: a depreciate raised; error_handler returns the
\* error response, the assets before it stay revalued and nothing is saved
DepreciateAllRaised(i, as_of_date) ==
  /\ live[i]
  /\ repo = "assets"
  /\ \E r \in {Revalued(mem[i], as_of_date)} :
       /\ r.raised
       /\ mem' = [mem EXCEPT ![i] = r.assets]
  /\ hist' = [hist EXCEPT ![i] = Asked(@, 0)]
  /\ last' = Call("depreciate_all", i, 0, "none", "Unexpected", "none")
  /\ UNCHANGED <<repo, doc, live, writer, faults, obj, engine, rt>>

\* one service instance, the only writer of its document (as in main())
Next ==
  \/ ConstructLoaded(1)
  \/ ConstructFailed(1)
  \/ \E e \in Inputs(repo) : Add(1, e)
  \/ \E e \in Inputs(repo) : Update(1, e)
  \/ \E id \in InputIds(repo) : Delete(1, id)
  \/ \E d \in AsOfDates : DepreciateAll(1, d)
  \/ \E d \in AsOfDates : DepreciateAllRaised(1, d)

Spec == Init /\ [][Next]_vars

(***************************************************************************)
(* The requests of the web routes: each request constructs a service of    *)
(* its own over the same document and makes one call on it.                *)
(***************************************************************************)
\* the bodies POST /assets is called with, after Asset.from_dict
Posted == {Laptop, Server}

InitRace == Init /\ repo = "assets"

\* POST /assets on the service the request constructed
PostAsset(i, e) ==
  /\ hist[i].ops = 0
  /\ Add(i, e)

NextRace ==
  \/ \E i \in Instances : ConstructLoaded(i)
  \/ \E i \in Instances : ConstructFailed(i)
  \/ \E i \in Instances : \E e \in Posted : PostAsset(i, e)

SpecRace == InitRace /\ [][NextRace]_vars

(***************************************************************************)
(* The calls made on one entity directly: depreciate, and to_dict followed *)
(* by from_dict.                                                           *)
(***************************************************************************)
Vault ==
  Asset(5, "Vault", Date(2003, 1, 1), Money(500, 0), Money(500, 0), 24, "ACTIVE",
        "STRAIGHT_LINE", Money(0, 0), <<>>)

\* entities of every class, status, method and type
Entities ==
  {[Laptop EXCEPT !.status = s, !.depreciation_method = m]
     : s \in DOMAIN AssetStatus, m \in DOMAIN DepreciationMethod}
  \cup {LaptopServiced, Scanner, Vault}
  \cup {[Checkup EXCEPT !.status = s, !.maintenance_type = t]
          : s \in DOMAIN MaintenanceStatus, t \in DOMAIN MaintenanceType}
  \cup {[Charger EXCEPT !.status = s] : s \in DOMAIN InventoryStatus}

\* the day before the purchase of Laptop, the as_of_date of main(), and a
\* day past the life of Laptop that is 24 years of 365.25 days after the
\* purchase of Vault
CallDates == {Date(2022, 12, 31), Date(2023, 12, 31), Date(2027, 1, 1)}

RepoOf(cls) ==
  IF cls = "Asset" THEN "assets" ELSE IF cls = "Maintenance" THEN "maintenances" ELSE "inventory"

InitEntity ==
  /\ serviceIdle
  /\ last = Call("none", 0, 0, "none", "ok", "none")
  /\ obj \in Entities
  /\ engine = [as_of |-> NoDate, calls |-> 0, raised |-> FALSE]
  /\ rt = <<>>

\* asset.depreciate(as_of_date); engine counts the calls in a row with the
\* same date, and a raising call leaves the asset as it was
DepreciateCall(d) ==
  /\ obj.cls = "Asset"
  /\ engine.as_of = d => engine.calls < MaxCalls
  /\ \E r \in {Depreciate(obj, d)} :
       /\ obj' = r.asset
       /\ engine' = [as_of |-> d,
                     calls |-> IF engine.as_of = d THEN engine.calls + 1 ELSE 1,
                     raised |-> r.raised]
       /\ last' = Call("depreciate", 0, obj.id, obj.cls,
                       IF r.raised THEN "raised" ELSE "ok", "none")
  /\ rt' = <<>>
  /\ UNCHANGED <<repo, doc, live, mem, hist, writer, faults>>

\* cls.from_dict(obj.to_dict()): rt holds obj and what came back
RoundTrip ==
  /\ rt' = <<obj, FromDict(RepoOf(obj.cls), ToDict(obj))>>
  /\ last' = Call("round_trip", 0, obj.id, obj.cls, "ok", "none")
  /\ UNCHANGED <<repo, doc, live, mem, hist, writer, faults, obj, engine>>

NextEntity ==
  \/ \E d \in CallDates : DepreciateCall(d)
  \/ RoundTrip

SpecEntity == InitEntity /\ [][NextEntity]_vars

(***************************************************************************)
(* Properties.                                                             *)
(***************************************************************************)
\* d rounded half even to the given number of decimal places
DecQuantize(d, places) ==
  IF d.exp >= 0 - places THEN d
  ELSE The({DecFixP(Dec(d.sign, Zeros(pad) \o d.int, d.exp),
                    Len(d.int) + pad + d.exp + places)
            : pad \in {Max2(0, 1 - (Len(d.int) + d.exp + places))}})

WriteCalls == {"add", "update", "delete", "depreciate_all"}

\* C1: after depreciate_all_assets returns, every asset of the collection has
\* salvage_value <= current_value <= purchase_price, whatever the date.
C1_ValueWithinBounds ==
  (last.op = "depreciate_all" /\ last.result = "ok") =>
    \A k \in 1..Len(mem[1]) :
      /\ DecLe(mem[1][k].value.salvage_value, mem[1][k].value.current_value)
      /\ DecLe(mem[1][k].value.current_value, mem[1][k].value.purchase_price)

\* C2: in every service, an update or delete whose id is not a key of the
\* collection leaves the collection and the document as they were and ends in
\* an error response, which is the not-found one when the argument is of the
\* managed type (and always in the inventory service and for delete).
C2_MissingIdRejected ==
  [][(last'.op \in {"update", "delete"} /\ ~DictHas(mem[1], last'.key)) =>
       /\ mem' = mem
       /\ doc' = doc
       /\ last'.result \in {"NotFound", "InvalidData"}
       /\ (last'.op = "delete" \/ repo = "inventory" \/ last'.cls = ManagedClass(repo))
            => last'.result = "NotFound"]_vars

\* an update or delete was refused as not found on a collection that holds
\* other entities and has been written
C2_RefusedOnStoredCollection ==
  /\ last.op \in {"update", "delete"}
  /\ last.result = "NotFound"
  /\ Len(mem[1]) > 0
  /\ doc.exists /\ doc.wellformed /\ Len(doc.items) > 0

\* C3: add, update, delete and depreciate_all_assets never return as a success
\* when the write of the document failed.
C3_FailedWriteSurfaced ==
  last.write \in {"open failed", "dump failed"} => last.result # "ok"

\* C4: a depreciate call that follows a depreciate call with the same date
\* leaves the asset as the first call left it.
C4_DepreciateIdempotent ==
  [][(last'.op = "depreciate" /\ engine'.calls >= 2) => obj' = obj]_vars

\* two calls in a row with one date on an asset the first call revalued
C4_RevaluedTwice ==
  /\ engine.calls = 2
  /\ ~engine.raised
  /\ obj.status = "ACTIVE"
  /\ ~DecEq(obj.current_value, obj.purchase_price)
  /\ ~DecEq(obj.current_value, obj.salvage_value)

\* C5: from_dict(to_dict(x)) equals x in all fields, for every Asset,
\* Maintenance and InventoryItem.
C5_RoundTrip == rt # <<>> => rt[2] = rt[1]

\* C6: an active straight-line asset whose elapsed years equal its useful
\* life exactly is left with exactly its salvage value.
C6_SalvageAtEndOfLife ==
  (/\ last.op = "depreciate"
   /\ obj.status = "ACTIVE"
   /\ obj.depreciation_method = "STRAIGHT_LINE"
   /\ DecEq(YearsPassed(obj, engine.as_of), DecOfInt(obj.useful_life_years)))
  => DecEq(obj.current_value, obj.salvage_value)

\* the asset of main() after depreciate(2023-12-31)
LaptopAtYearEnd ==
  /\ last.op = "depreciate"
  /\ engine.as_of = Date(2023, 12, 31)
  /\ [obj EXCEPT !.current_value = Laptop.current_value] = Laptop

\* C7: for the asset of main() (bought 2023-01-01 for 1500.00, salvage 300.00,
\* life 3, straight line), depreciate(2023-12-31) works with 364 days, which
\* is 0.9966 years to four places, and leaves 1101.37 to the cent.
C7_LaptopValue ==
  LaptopAtYearEnd =>
    /\ DaysBetween(engine.as_of, obj.purchase_date) = 364
    /\ DecEq(DecQuantize(YearsPassed(obj, engine.as_of), 4), Dec(0, NatOfInt(9966), -4))
    /\ DecEq(DecQuantize(obj.current_value, 2), Money(1101, 37))

\* C7 as stated: 0.9993 years and 1100.27
C7_LaptopValueAsStated ==
  LaptopAtYearEnd =>
    /\ DecEq(DecQuantize(YearsPassed(obj, engine.as_of), 4), Dec(0, NatOfInt(9993), -4))
    /\ DecEq(DecQuantize(obj.current_value, 2), Money(1100, 27))

\* the asset of main() was revalued as of 2023-12-31
C7_LaptopRevalued == LaptopAtYearEnd /\ ~DecEq(obj.current_value, obj.purchase_price)

\* C8: depreciate_all_assets leaves every asset that is not Active as it was,
\* in all fields, whether the call returns or stops at an asset that raises.
C8_InactiveFrozen ==
  [][last'.op = "depreciate_all" =>
       /\ Len(mem'[1]) = Len(mem[1])
       /\ \A k \in 1..Len(mem[1]) :
            mem[1][k].value.status # "ACTIVE" => mem'[1][k] = mem[1][k]]_vars

\* depreciate_all_assets ran over an asset that is not Active and an Active
\* one, which it revalued
C8_MixedCollectionRevalued ==
  /\ last.op = "depreciate_all"
  /\ \E k \in 1..Len(mem[1]) : mem[1][k].value.status # "ACTIVE"
  /\ \E k \in 1..Len(mem[1]) :
       /\ mem[1][k].value.status = "ACTIVE"
       /\ ~DecEq(mem[1][k].value.current_value, mem[1][k].value.purchase_price)

\* C9: after every add, update, delete or depreciate_all_assets that returned
\* as a success, the document is the serialization of the whole collection.
C9_DocumentMatchesMemory ==
  (last.op \in WriteCalls /\ last.result = "ok") =>
    doc = FileHandlerSave(doc, Saved(mem[1]), "written")

\* both requests loaded before either saved, each added an entity the other
\* did not have, both adds were written, and j saved last
RacedAdds(i, j) ==
  /\ hist[i].added # 0
  /\ hist[j].added # 0
  /\ hist[i].added # hist[j].added
  /\ ~DictHas(mem[i], hist[j].added)
  /\ ~DictHas(mem[j], hist[i].added)
  /\ writer = j

\* C10: when two services over one document both loaded before either saved
\* and each added a different entity, the document holds the collection of
\* the one that saved last and not the entity the other added.
C10_LostUpdate ==
  \A i, j \in Instances :
    (i # j /\ RacedAdds(i, j)) =>
      /\ doc = FileHandlerSave(doc, Saved(mem[j]), "written")
      /\ \A k \in 1..Len(doc.items) : UuidOfStr(doc.items[k].key) # hist[i].added
      /\ \E k \in 1..Len(doc.items) : UuidOfStr(doc.items[k].key) = hist[j].added

\* both adds were acknowledged after both services had loaded
C10_BothAcknowledged == \E i, j \in Instances : i # j /\ RacedAdds(i, j)

====
